---------------------------- MODULE Spec2Model ----------------------------
(***************************************************************************)
(* Model of backend/src/services/redis.ts (ytify backend): the module-level *)
(* Redis client handle and connection flag, the connection lifecycle       *)
(* (initRedis, closeRedis, the four client event handlers, the reconnect   *)
(* strategy) and the cache operations built on them.                       *)
(*                                                                         *)
(* The node-redis client and the Redis server are the environment.  They   *)
(* are modelled by their documented behaviour:                             *)
(*  - 'connect' is emitted when the socket is open, 'ready' after the      *)
(*    handshake, 'error' on a failure, 'reconnecting' before a new attempt;*)
(*  - the socket calls reconnectStrategy(retries) with the number of       *)
(*    retries made so far in the current round, starting at 0; a number is *)
(*    a delay, an Error closes the client for good and rejects connect();  *)
(*  - every command is atomic at the server;                               *)
(*  - a command issued to a client that is not ready is held by the client *)
(*    until it is ready or closed; quit() rejects on a closed client.      *)
(*                                                                         *)
(* The application around the module (main, the /health route, the        *)
(* shutdown handler) is modelled from backend/REDIS_SETUP.md.              *)
(*                                                                         *)
(* The browser side is represented by src/lib/modules/audioErrorHandler.ts,*)
(* the handler of the audio element's error event, with the element and    *)
(* the stores it reads and writes as its state.                            *)
(***************************************************************************)
EXTENDS Integers, Sequences, FiniteSets, TLC

\* ------------------------------------------------------------------ bounds

\* Number of clients initRedis may create in the lifecycle specification.
MaxClients == 2
\* Number of slots for cache operations in flight.
MaxCalls == 2
\* Largest ttlSeconds a caller of set passes.
MaxTtl == 2
\* Largest value a counter is incremented from.
MaxCount == 2
\* Largest attempt number and maxRetries reconnectStrategy is applied to.
MaxProbe == 35
\* Largest maxRetries a caller of initRedis configures in the lifecycle
\* specification (the values 1..MaxCfgRetries).
MaxCfgRetries == 2

\* Number of times the audio error handler is invoked on the element.
MaxErrors == 3

\* ------------------------------------------------------- program constants

DefaultMaxRetries == 10
DelayStepMs == 100
MaxDelayMs == 3000

\* --------------------------------------------------------------- variables

VARIABLES
    cfgMax,        \* cfg.maxRetries of the configuration initRedis is given
    redisClient,   \* 0 = null, otherwise the id of the client the handle names
    isConnected,   \* the module-level flag
    clients,       \* id -> the client's socket state (environment)
    closePc,       \* position of the closeRedis call in flight
    closeH,        \* the client that call issued quit() on
    store,         \* the Redis server's keyspace: key -> [val, ttl]
    calls,         \* slot -> the cache operation in flight in it
    hist,          \* history of the calls, for stating the properties: the
                   \* last set of each key that returned true, the last ttl
                   \* reading of each key, whether the keyspace changed since
                   \* a slot's enumeration
    probe,         \* an application of reconnectStrategy: its inputs, its result
    app,           \* the application around the module: main, /health, shutdown
    player         \* the browser's audio element, the stores the audio error
                   \* handler reads and writes, and what the handler has done

lifeVars == <<redisClient, isConnected, clients, closePc, closeH>>
cacheVars == <<store, calls, hist>>
vars == <<cfgMax, redisClient, isConnected, clients, closePc, closeH,
          store, calls, hist, probe, app, player>>


Null == 0
ClientIds == 1..MaxClients

\* cfg.maxRetries is optional: has = FALSE is "not configured" (undefined).
NotConfigured == [has |-> FALSE, v |-> 0]
Configured(n) == [has |-> TRUE, v |-> n]

Min(a, b) == IF a < b THEN a ELSE b

\* ------------------------------------------------------- reconnectStrategy

\* const maxRetries = cfg.maxRetries || 10: undefined and 0 are both falsy.
EffectiveMaxRetries(m) ==
    IF m.has /\ m.v # 0 THEN m.v ELSE DefaultMaxRetries

GiveUp == [kind |-> "error", ms |-> 0]
Delay(ms) == [kind |-> "delay", ms |-> ms]

\* A strategy that never gives up.
reconnectStrategy_NeverGiveUp(m, retries) ==
    Delay(Min(retries * DelayStepMs, MaxDelayMs))

\* socket.reconnectStrategy of the client initRedis creates.
reconnectStrategy(m, retries) ==
    IF retries > EffectiveMaxRetries(m)
    THEN GiveUp
    ELSE Delay(Min(retries * DelayStepMs, MaxDelayMs))

\* --------------------------------------------------------------- lifecycle

isRedisConnected == isConnected /\ redisClient # Null

NoClient == [phase |-> "none", retries |-> 0, awaiting |-> FALSE]

\* initRedis up to its await: createClient, the four handlers, connect().
initRedis_call(limit) ==
    /\ \E c \in 1..limit :
        /\ clients[c].phase = "none"
        /\ \A d \in 1..(c - 1) : clients[d].phase # "none"
        /\ redisClient' = c
        /\ clients' = [clients EXCEPT ![c] =
              [phase |-> "connecting", retries |-> 0, awaiting |-> TRUE]]
    /\ UNCHANGED <<cfgMax, isConnected, closePc, closeH, cacheVars, probe, player>>

\* initRedis called by a caller other than main.
initRedis_start(limit) == initRedis_call(limit) /\ UNCHANGED app

\* createClient throws: the catch block runs before any handle is assigned.
initRedis_catch ==
    /\ redisClient' = Null
    /\ isConnected' = FALSE
    /\ UNCHANGED <<cfgMax, clients, closePc, closeH, cacheVars, probe, player>>

\* The same, called by a caller other than main.
initRedis_createFails == initRedis_catch /\ UNCHANGED app

\* isConnected = true in the 'connect' handler, left as it is by a handler
\* that does not assign it.
FlagOnConnect_Unset == isConnected
FlagOnConnect == TRUE

\* The socket is open: 'connect' handler.
on_connect(c) ==
    /\ clients[c].phase = "connecting"
    /\ clients' = [clients EXCEPT ![c].phase = "handshake"]
    /\ isConnected' = FlagOnConnect
    /\ UNCHANGED <<cfgMax, redisClient, closePc, closeH, cacheVars, probe, player, app>>

\* The handshake is done: 'ready' handler; connect() resolves for the
\* initRedis call that awaits it ("Initialization complete").
ready_event(c) ==
    /\ clients[c].phase = "handshake"
    /\ clients' = [clients EXCEPT ![c].phase = "ready", ![c].retries = 0,
                                  ![c].awaiting = FALSE]
    /\ isConnected' = TRUE
    /\ UNCHANGED <<cfgMax, redisClient, closePc, closeH, cacheVars, probe, player>>

\* 'ready' with no main waiting for it.
on_ready(c) == ready_event(c) /\ UNCHANGED app

\* A connection attempt fails (socket or handshake) and the strategy grants a
\* delay: 'error' handler, then the client waits.
on_error_retry(c) ==
    /\ clients[c].phase \in {"connecting", "handshake"}
    /\ reconnectStrategy(cfgMax, clients[c].retries).kind = "delay"
    /\ clients' = [clients EXCEPT ![c].phase = "backoff",
                                  ![c].retries = @ + 1]
    /\ isConnected' = FALSE
    /\ UNCHANGED <<cfgMax, redisClient, closePc, closeH, cacheVars, probe, player, app>>

\* A connection attempt fails and the strategy returns an Error: 'error'
\* handler, the client is closed; connect() rejects for the initRedis call
\* that still awaits it and its catch block runs.
giveUp_event(c) ==
    /\ clients[c].phase \in {"connecting", "handshake"}
    /\ reconnectStrategy(cfgMax, clients[c].retries).kind = "error"
    /\ clients' = [clients EXCEPT ![c].phase = "gaveUp", ![c].retries = 0,
                                  ![c].awaiting = FALSE]
    /\ isConnected' = FALSE
    /\ redisClient' = IF clients[c].awaiting THEN Null ELSE redisClient
    /\ UNCHANGED <<cfgMax, closePc, closeH, cacheVars, probe, player>>

\* Giving up with no main waiting for it.
on_error_giveUp(c) == giveUp_event(c) /\ UNCHANGED app

\* The delay has elapsed: 'reconnecting' handler, next attempt.
on_reconnecting(c) ==
    /\ clients[c].phase = "backoff"
    /\ clients' = [clients EXCEPT ![c].phase = "connecting"]
    /\ isConnected' = FALSE
    /\ UNCHANGED <<cfgMax, redisClient, closePc, closeH, cacheVars, probe, player, app>>

\* The socket of a ready client breaks: 'error' handler, the strategy is
\* asked with retries = 0, 'reconnecting' handler, a new round of attempts.
on_socketError(c) ==
    /\ clients[c].phase = "ready"
    /\ reconnectStrategy(cfgMax, 0).kind = "delay"
    /\ clients' = [clients EXCEPT ![c].phase = "connecting", ![c].retries = 0]
    /\ isConnected' = FALSE
    /\ UNCHANGED <<cfgMax, redisClient, closePc, closeH, cacheVars, probe, player, app>>

\* closeRedis up to its await: quit() is issued on the current handle.
closeRedis_call ==
    /\ closePc = "idle"
    /\ redisClient # Null
    /\ closePc' = "quitting"
    /\ closeH' = redisClient
    /\ UNCHANGED <<cfgMax, redisClient, isConnected, clients, cacheVars, probe, player>>

\* closeRedis called by a caller other than the shutdown handler.
closeRedis_start == closeRedis_call /\ UNCHANGED app

\* closeRedis with a null handle: nothing happens.
closeRedis_noop ==
    /\ closePc = "idle"
    /\ redisClient = Null
    /\ UNCHANGED vars

\* A closeRedis that resets the flag only.
HandleAfterQuit_Kept(h) == h

\* redisClient = null after the await on quit().
HandleAfterQuit(h) == Null

\* quit() resolves: the server closed the connection of a ready client.
quit_resolved ==
    /\ closePc = "quitting"
    /\ clients[closeH].phase = "ready"
    /\ clients' = [clients EXCEPT ![closeH].phase = "closed"]
    /\ redisClient' = HandleAfterQuit(redisClient)
    /\ isConnected' = FALSE
    /\ closePc' = "idle"
    /\ closeH' = Null
    /\ UNCHANGED <<cfgMax, cacheVars, probe, player>>

\* The same, for a caller other than the shutdown handler.
closeRedis_resolve == quit_resolved /\ UNCHANGED app

\* quit() rejects (the client is closed): closeRedis has no catch, the error
\* goes to its caller and neither the handle nor the flag is reset.
quit_rejected ==
    /\ closePc = "quitting"
    /\ clients[closeH].phase \in {"closed", "gaveUp"}
    /\ closePc' = "idle"
    /\ closeH' = Null
    /\ UNCHANGED <<cfgMax, redisClient, isConnected, clients, cacheVars, probe, player>>

\* The same, for a caller other than the shutdown handler.
closeRedis_reject == quit_rejected /\ UNCHANGED app

\* A client that was closed emits 'connect' or 'ready' all the same: the
\* handler runs as it does for any other client.
on_lateEvent(c) ==
    /\ clients[c].phase = "closed"
    /\ isConnected' = TRUE
    /\ UNCHANGED <<cfgMax, redisClient, clients, closePc, closeH, cacheVars,
                   probe, player, app>>


\* ------------------------------------------------------------ Redis server

\* Keys and glob patterns are strings, written as sequences of characters.
K_a1 == <<"a", ":", "1">>
K_a2 == <<"a", ":", "2">>
K_b1 == <<"b", ":", "1">>
Keys == {K_a1, K_a2, K_b1}
Patterns == {<<"a", ":", "*">>, <<"*">>, <<"?", ":", "1">>, <<"c", ":", "*">>}
Values == {"x", "y"}

\* Decimal strings of the counters INCR keeps: "-1", "0", "1" .. "9".
Digits == <<"1", "2", "3", "4", "5", "6", "7", "8", "9">>
Numbers == {0 - 1, 0} \cup DOMAIN Digits
ToStr(n) == IF n = 0 - 1 THEN "-1" ELSE IF n = 0 THEN "0" ELSE Digits[n]
IsNum(s) == \E n \in Numbers : ToStr(n) = s
ToInt(s) == CHOOSE n \in Numbers : ToStr(n) = s

\* ttlSeconds is optional: has = FALSE is an omitted argument.
NoTtl == [has |-> FALSE, v |-> 0]
Ttl(n) == [has |-> TRUE, v |-> n]
TtlInputs == {NoTtl} \cup {Ttl(n) : n \in 0..MaxTtl}

\* A stored entry; ttl is the remaining lifetime in seconds, 0 for none.
Absent == [val |-> "", ttl |-> 0]
Present(st, k) == st[k].val # ""

\* KEYS: glob matching with * and ?.
RECURSIVE Match(_, _)
Match(p, k) ==
    IF p = <<>> THEN k = <<>>
    ELSE IF Head(p) = "*"
         THEN Match(Tail(p), k) \/ (k # <<>> /\ Match(p, Tail(k)))
         ELSE /\ k # <<>>
              /\ Head(p) = "?" \/ Head(p) = Head(k)
              /\ Match(Tail(p), Tail(k))

\* Results and replies: a string, null, a boolean, a number, the stats
\* record, or an error that left the function (kind "throw").
Res(kind, s, n) == [kind |-> kind, s |-> s, n |-> n]
RNull == Res("null", "", 0)
RStr(s) == Res("str", s, 0)
RBool(b) == Res("bool", IF b THEN "true" ELSE "false", 0)
RNum(n) == Res("num", "", n)
RStats(status, size) == Res("stats", status, size)
RThrow == Res("throw", "", 0)

\* The command is refused by the server with an error reply.
ExecError(st, c) ==
    \/ c.cmd = "SETEX" /\ c.ttl.v <= 0
    \/ c.cmd = "INCR" /\ Present(st, c.key) /\ ~IsNum(st[c.key].val)

\* The keyspace after the command.
ExecEffect(st, c) ==
    CASE c.cmd = "SET" -> [st EXCEPT ![c.key] = [val |-> c.val, ttl |-> 0]]
      [] c.cmd = "SETEX" ->
            [st EXCEPT ![c.key] = [val |-> c.val, ttl |-> c.ttl.v]]
      [] c.cmd = "DEL" -> [st EXCEPT ![c.key] = Absent]
      [] c.cmd = "DELM" -> [k \in Keys |-> IF k \in c.del THEN Absent ELSE st[k]]
      [] c.cmd = "INCR" ->
            IF Present(st, c.key)
            THEN [st EXCEPT ![c.key].val = ToStr(ToInt(@) + 1)]
            ELSE [st EXCEPT ![c.key] = [val |-> "1", ttl |-> 0]]
      [] OTHER -> st

\* The server's reply to the command.
ExecReply(st, c) ==
    CASE c.cmd = "GET" ->
            IF Present(st, c.key) THEN RStr(st[c.key].val) ELSE RNull
      [] c.cmd = "DEL" -> RNum(IF Present(st, c.key) THEN 1 ELSE 0)
      [] c.cmd = "DELM" ->
            RNum(Cardinality({k \in c.del : Present(st, k)}))
      [] c.cmd = "EXISTS" -> RNum(IF Present(st, c.key) THEN 1 ELSE 0)
      [] c.cmd = "TTL" ->
            IF ~Present(st, c.key) THEN RNum(0 - 2)
            ELSE IF st[c.key].ttl = 0 THEN RNum(0 - 1)
            ELSE RNum(st[c.key].ttl)
      [] c.cmd = "INCR" ->
            RNum(IF Present(st, c.key) THEN ToInt(st[c.key].val) + 1 ELSE 1)
      [] c.cmd = "DBSIZE" -> RNum(Cardinality({k \in Keys : Present(st, k)}))
      [] c.cmd = "INFO" -> RStr("info")
      [] OTHER -> RStr("OK")

ExecKeys(st, c) == {k \in Keys : Present(st, k) /\ Match(c.key, k)}

WriteCommands == {"SET", "SETEX", "DEL", "DELM", "INCR"}

\* The keys a command writes.
Written(c) ==
    IF c.cmd = "DELM" THEN c.del
    ELSE IF c.cmd \in WriteCommands THEN {c.key} ELSE {}

\* --------------------------------------------------------- cache operations

Slots == 1..MaxCalls

Ops == {"get", "set", "del", "delPattern", "exists", "ttl", "incr", "getStats"}

\* if (ttlSeconds): an omitted argument and 0 are both falsy.
Truthy(t) == t.has /\ t.v # 0

\* A set that never passes its ttlSeconds on.
FirstCommand_NoExpiry(a) ==
    CASE a.op = "get" -> "GET"
      [] a.op = "set" -> "SET"
      [] a.op = "del" -> "DEL"
      [] a.op = "delPattern" -> "KEYS"
      [] a.op = "exists" -> "EXISTS"
      [] a.op = "ttl" -> "TTL"
      [] a.op = "incr" -> "INCR"
      [] OTHER -> "INFO"

\* The first client command of each operation.
FirstCommand(a) ==
    CASE a.op = "get" -> "GET"
      [] a.op = "set" -> IF Truthy(a.ttl) THEN "SETEX" ELSE "SET"
      [] a.op = "del" -> "DEL"
      [] a.op = "delPattern" -> "KEYS"
      [] a.op = "exists" -> "EXISTS"
      [] a.op = "ttl" -> "TTL"
      [] a.op = "incr" -> "INCR"
      [] OTHER -> "INFO"

\* What each operation returns when it does not reach the server.
Sentinel(op) ==
    CASE op = "get" -> RNull
      [] op \in {"set", "del", "exists"} -> RBool(FALSE)
      [] op \in {"delPattern", "incr"} -> RNum(0)
      [] op = "ttl" -> RNum(0 - 2)
      [] OTHER -> RStats("disconnected", 0)

\* A guard that throws instead of returning.
OnGuard_NotConnectedError(op) == RThrow

\* if (!isRedisConnected() || !redisClient) return <sentinel>.
OnGuard(op) == Sentinel(op)

\* Catch blocks that let the error of incr out, that report set as done,
\* that report the enumerated keys of delPattern as deleted.
OnCatch_Rethrow(c) ==
    IF c.op = "incr" THEN RThrow
    ELSE IF c.op = "getStats" THEN RStats("error", 0) ELSE Sentinel(c.op)
OnCatch_SetTrue(c) ==
    IF c.op = "set" THEN RBool(TRUE)
    ELSE IF c.op = "getStats" THEN RStats("error", 0) ELSE Sentinel(c.op)
OnCatch_KeyCount(c) ==
    IF c.op = "delPattern" THEN RNum(Cardinality(c.keys))
    ELSE IF c.op = "getStats" THEN RStats("error", 0) ELSE Sentinel(c.op)

\* Catch blocks that report a failed write as done.
OnCatch_WriteTrue(c) ==
    IF c.op \in {"set", "del"} THEN RBool(TRUE)
    ELSE IF c.op = "getStats" THEN RStats("error", 0) ELSE Sentinel(c.op)

\* A getStats whose catch block reports the backend as connected.
OnCatch_StatsConnected(c) ==
    IF c.op = "getStats" THEN RStats("connected", 0) ELSE Sentinel(c.op)

\* The catch block of each operation.
OnCatch(c) ==
    IF c.op = "getStats" THEN RStats("error", 0) ELSE Sentinel(c.op)

\* A ttl that reports every negative reply as -2, and a ttl that asks for
\* the remaining lifetime in milliseconds.
OnReply_TtlCollapsed(c, reply) ==
    CASE c.op = "get" -> reply
      [] c.op \in {"set", "del"} -> RBool(TRUE)
      [] c.op = "delPattern" -> RNum(Cardinality(c.keys))
      [] c.op = "exists" -> RBool(reply.n = 1)
      [] c.op = "ttl" -> IF reply.n < 0 THEN RNum(0 - 2) ELSE reply
      [] c.op = "incr" -> reply
      [] OTHER -> RStats("connected", reply.n)
OnReply_TtlMillis(c, reply) ==
    CASE c.op = "get" -> reply
      [] c.op \in {"set", "del"} -> RBool(TRUE)
      [] c.op = "delPattern" -> RNum(Cardinality(c.keys))
      [] c.op = "exists" -> RBool(reply.n = 1)
      [] c.op = "ttl" -> IF reply.n > 0 THEN RNum(reply.n * 1000) ELSE reply
      [] c.op = "incr" -> reply
      [] OTHER -> RStats("connected", reply.n)

\* The value returned after the last command's reply.
OnReply(c, reply) ==
    CASE c.op = "get" -> reply
      [] c.op \in {"set", "del"} -> RBool(TRUE)
      [] c.op = "delPattern" -> RNum(Cardinality(c.keys))
      [] c.op = "exists" -> RBool(reply.n = 1)
      [] c.op \in {"ttl", "incr"} -> reply
      [] OTHER -> RStats("connected", reply.n)

\* A bulk delete that is given the first enumerated key only.
DelTargets_First(keys) == {CHOOSE k \in keys : TRUE}

\* await redisClient.del(keys): the keys the bulk delete is given.
DelTargets(keys) == keys

\* A catch block that also marks the backend disconnected.
FlagAfterCatch_Reset(flag) == FALSE

\* The flag after a catch block has run: no operation assigns it.
FlagAfterCatch(flag) == flag

Idle == [pc |-> "idle", op |-> "none", key |-> <<>>, val |-> "", ttl |-> NoTtl,
         h |-> Null, cmd |-> "none", keys |-> {}, del |-> {}, res |-> RNull,
         how |-> "none"]

Sent(a, h, cmd, keys, del) ==
    [pc |-> "sent", op |-> a.op, key |-> a.key, val |-> a.val, ttl |-> a.ttl,
     h |-> h, cmd |-> cmd, keys |-> keys, del |-> del, res |-> RNull,
     how |-> "none"]

Done(a, res, how) ==
    [pc |-> "done", op |-> a.op, key |-> a.key, val |-> a.val, ttl |-> a.ttl,
     h |-> Null, cmd |-> "none", keys |-> {}, del |-> {}, res |-> res,
     how |-> how]

\* The arguments an operation is called with.
ArgsOf(op, keys, pats, ttls) ==
    CASE op = "set" ->
            {[op |-> op, key |-> k, val |-> v, ttl |-> t] :
                k \in keys, v \in Values, t \in ttls}
      [] op = "delPattern" ->
            {[op |-> op, key |-> p, val |-> "", ttl |-> NoTtl] : p \in pats}
      [] op = "getStats" ->
            {[op |-> op, key |-> <<>>, val |-> "", ttl |-> NoTtl]}
      [] OTHER -> {[op |-> op, key |-> k, val |-> "", ttl |-> NoTtl] : k \in keys}

\* --------------------------------------------------------------- history

HistNone == [v |-> "", t |-> 0, left |-> 0]

\* The keys a command has written are no longer as the last set left them,
\* and the ttl readings taken of them are out of date.
HistWritten(h, i, ks) ==
    [set |-> [k \in Keys |-> IF k \in ks THEN HistNone ELSE h.set[k]],
     clean |-> [j \in Slots |->
                  IF j # i /\ ks # {} THEN FALSE ELSE h.clean[j]],
     read |-> [k \in Keys |-> IF k \in ks THEN 0 ELSE h.read[k]],
     ctr |-> [k \in Keys |-> IF k \in ks THEN 0 ELSE h.ctr[k]],
     all |-> h.all]

\* A set has returned true: its value and its ttlSeconds (0 for none; such
\* sets are kept only where h.all asks for them).
\* A ttl has returned a remaining lifetime.  An incr has returned a count.
HistReturned(h, c, res) ==
    IF c.op = "set" /\ res = RBool(TRUE) /\ (Truthy(c.ttl) \/ h.all)
    THEN LET t == IF Truthy(c.ttl) THEN c.ttl.v ELSE 0 IN
         [h EXCEPT !.set[c.key] = [v |-> c.val, t |-> t, left |-> t]]
    ELSE IF c.op = "ttl" /\ res.kind = "num" /\ res.n > 0
    THEN [h EXCEPT !.read[c.key] = res.n]
    ELSE IF c.op = "incr" /\ res.kind = "num" /\ res.n > 0
    THEN [h EXCEPT !.ctr[c.key] = res.n]
    ELSE h

\* ------------------------------------------------ steps of a cache operation

\* The synchronous part of an operation: the guard, then the first command.
op_call(i, a) ==
    /\ calls[i].pc = "idle"
    /\ a.op = "incr" =>
          ~(Present(store, a.key) /\ IsNum(store[a.key].val)
              /\ ToInt(store[a.key].val) >= MaxCount)
    /\ calls' = [calls EXCEPT ![i] =
          IF ~isRedisConnected \/ redisClient = Null
          THEN Done(a, OnGuard(a.op), "guard")
          ELSE Sent(a, redisClient, FirstCommand(a), {}, {})]
    /\ UNCHANGED <<cfgMax, lifeVars, store, hist, probe, player, app>>

\* The server runs the pending command and its reply reaches the operation.
server_exec(i) ==
    LET c == calls[i] IN
    /\ c.pc = "sent"
    /\ clients[c.h].phase = "ready"
    /\ ~ExecError(store, c)
    /\ store' = ExecEffect(store, c)
    /\ IF c.cmd \in {"KEYS", "INFO"}
       THEN /\ calls' = [calls EXCEPT ![i].pc = "replied",
                                      ![i].keys = ExecKeys(store, c)]
            /\ hist' = [hist EXCEPT !.clean[i] = TRUE]
       ELSE LET res == OnReply(c, ExecReply(store, c)) IN
            /\ calls' = [calls EXCEPT ![i] = Done(c, res, "reply")]
            /\ hist' = HistReturned(HistWritten(hist, i, Written(c)), c, res)
    /\ UNCHANGED <<cfgMax, lifeVars, probe, player, app>>

\* The server runs a pending write, and its reply never arrives.
server_lost(i) ==
    LET c == calls[i] IN
    /\ c.pc = "sent"
    /\ c.cmd \in WriteCommands
    /\ clients[c.h].phase = "ready"
    /\ ~ExecError(store, c)
    /\ store' = ExecEffect(store, c)
    /\ calls' = [calls EXCEPT ![i].pc = "applied"]
    /\ hist' = HistWritten(hist, i, Written(c))
    /\ UNCHANGED <<cfgMax, lifeVars, probe, player, app>>

\* The pending command fails: the promise rejects and the catch block runs.
cmd_reject(i) ==
    LET c == calls[i] IN
    /\ c.pc \in {"sent", "applied"}
    /\ calls' = [calls EXCEPT ![i] = Done(c, OnCatch(c), "catch")]
    /\ hist' = HistReturned(hist, c, OnCatch(c))
    /\ isConnected' = FlagAfterCatch(isConnected)
    /\ UNCHANGED <<cfgMax, redisClient, clients, closePc, closeH, store, probe, player, app>>

\* After the first reply of delPattern and getStats: the second command is
\* issued on the handle as it is now; a null handle is a TypeError, caught.
op_continue(i) ==
    LET c == calls[i] IN
    /\ c.pc = "replied"
    /\ calls' = [calls EXCEPT ![i] =
          IF c.op = "delPattern" /\ c.keys = {}
          THEN Done(c, RNum(0), "reply")
          ELSE IF redisClient = Null
          THEN Done(c, OnCatch(c), "catch")
          ELSE IF c.op = "delPattern"
          THEN Sent(c, redisClient, "DELM", c.keys, DelTargets(c.keys))
          ELSE Sent(c, redisClient, "DBSIZE", {}, {})]
    /\ UNCHANGED <<cfgMax, lifeVars, store, hist, probe, player, app>>

\* The caller takes the result.
op_return(i) ==
    /\ calls[i].pc = "done"
    /\ calls' = [calls EXCEPT ![i] = Idle]
    /\ UNCHANGED <<cfgMax, lifeVars, store, hist, probe, player, app>>

\* One second of server time: lifetimes shrink, expired entries disappear.
Tick ==
    /\ \E k \in Keys : store[k].ttl > 0 \/ hist.set[k].left > 0
    /\ store' = [k \in Keys |->
          IF store[k].ttl = 0 THEN store[k]
          ELSE IF store[k].ttl = 1 THEN Absent
          ELSE [store[k] EXCEPT !.ttl = @ - 1]]
    /\ hist' = [set |-> [k \in Keys |->
                    IF hist.set[k].left > 0
                    THEN [hist.set[k] EXCEPT !.left = @ - 1]
                    ELSE hist.set[k]],
                clean |-> [j \in Slots |->
                    hist.clean[j] /\ \A k \in Keys : store[k].ttl = 0],
                read |-> hist.read,
                ctr |-> [k \in Keys |->
                    IF store[k].ttl = 1 THEN 0 ELSE hist.ctr[k]],
                all |-> hist.all]
    /\ UNCHANGED <<cfgMax, lifeVars, calls, probe, player, app>>

\* ------------------------------------------------------------- application

\* main.ts as backend/REDIS_SETUP.md gives it: main(), the /health route and
\* the shutdown handler.  validateConfig, initStorage, closeStorage and
\* isHealthy belong to modules that are not part of the sources: a failed
\* validation or storage initialisation throws out of main, and isHealthy()
\* is an input of each request.

NoResp == [made |-> FALSE, healthy |-> FALSE, redisHealthy |-> FALSE,
           status |-> "", storage |-> "", redis |-> "", code |-> 0]

\* pc "off": no application, the module is driven by its callers directly.
NoApp == [pc |-> "off", enabled |-> FALSE, valid |-> TRUE, init |-> "none",
          storageOpen |-> FALSE, shut |-> "none", resp |-> NoResp]

\* A main that begins at the storage initialisation.
MainEntry_NoValidation == "validated"

\* main() begins with validateConfig().
MainEntry == "start"

AppStart(enabled, valid) ==
    [NoApp EXCEPT !.pc = MainEntry, !.enabled = enabled, !.valid = valid]

\* The process runs: main has not thrown and Deno.exit has not been reached.
Alive == app.pc \notin {"off", "crashed"} /\ app.shut \notin {"exited", "aborted"}

\* A health route whose HTTP status also depends on Redis.
health_RedisIn503(healthy, redisHealthy) ==
    [made |-> TRUE, healthy |-> healthy, redisHealthy |-> redisHealthy,
     status |-> IF healthy /\ redisHealthy THEN "ok" ELSE "degraded",
     storage |-> IF healthy THEN "ok" ELSE "unhealthy",
     redis |-> IF redisHealthy THEN "connected" ELSE "disconnected",
     code |-> IF healthy /\ redisHealthy THEN 200 ELSE 503]

\* A health route whose status looks at storage only.
health_StorageOnly(healthy, redisHealthy) ==
    [made |-> TRUE, healthy |-> healthy, redisHealthy |-> redisHealthy,
     status |-> IF healthy THEN "ok" ELSE "degraded",
     storage |-> IF healthy THEN "ok" ELSE "unhealthy",
     redis |-> IF redisHealthy THEN "connected" ELSE "disconnected",
     code |-> IF healthy THEN 200 ELSE 503]

\* app.get("/health"): the JSON body and the HTTP status.
health(healthy, redisHealthy) ==
    [made |-> TRUE, healthy |-> healthy, redisHealthy |-> redisHealthy,
     status |-> IF healthy /\ redisHealthy THEN "ok" ELSE "degraded",
     storage |-> IF healthy THEN "ok" ELSE "unhealthy",
     redis |-> IF redisHealthy THEN "connected" ELSE "disconnected",
     code |-> IF healthy THEN 200 ELSE 503]

\* validateConfig(): an invalid configuration throws out of main.
AfterValidate(valid) == IF valid THEN "validated" ELSE "crashed"

\* A main that initialises Redis without looking at config.redisEnabled.
ShouldInitRedis_Always(enabled) == TRUE

\* if (config.redisEnabled)
ShouldInitRedis(enabled) == enabled

\* An initRedis whose catch block rethrows: main stops there.
MainAfterInit_Rethrow(outcome) ==
    IF outcome = "failed" THEN "crashed" ELSE "serving"

\* After await initRedis(): initRedis has caught every failure, main goes on
\* to register the signal listeners and to Deno.serve.
MainAfterInit(outcome) == "serving"

main_validate ==
    /\ app.pc = "start"
    /\ app' = [app EXCEPT !.pc = AfterValidate(app.valid)]
    /\ UNCHANGED <<cfgMax, lifeVars, cacheVars, probe, player>>

\* await initStorage(): it succeeds, or it throws out of main.
main_initStorage ==
    /\ app.pc = "validated"
    /\ \E ok \in BOOLEAN :
          app' = [app EXCEPT !.pc = IF ok THEN "storage" ELSE "crashed",
                             !.storageOpen = ok]
    /\ UNCHANGED <<cfgMax, lifeVars, cacheVars, probe, player>>

\* await initRedis(): up to the await on connect().
main_initRedis ==
    /\ app.pc = "storage"
    /\ ShouldInitRedis(app.enabled)
    /\ initRedis_call(1)
    /\ app' = [app EXCEPT !.pc = "awaitRedis", !.init = "pending"]

\* await initRedis(): createClient throws, the catch block runs, main goes on.
main_initRedis_createFails ==
    /\ app.pc = "storage"
    /\ ShouldInitRedis(app.enabled)
    /\ initRedis_catch
    /\ app' = [app EXCEPT !.pc = MainAfterInit("failed"), !.init = "failed"]

\* Redis disabled: main goes on to Deno.serve.
main_skipRedis ==
    /\ app.pc = "storage"
    /\ ~ShouldInitRedis(app.enabled)
    /\ app' = [app EXCEPT !.pc = "serving"]
    /\ UNCHANGED <<cfgMax, lifeVars, cacheVars, probe, player>>

\* connect() resolves: initRedis returns and main goes on.
main_ready(c) ==
    /\ app.pc = "awaitRedis"
    /\ clients[c].awaiting
    /\ ready_event(c)
    /\ app' = [app EXCEPT !.pc = MainAfterInit("ok"), !.init = "ok"]

\* connect() rejects: the catch block of initRedis runs and main goes on.
main_giveUp(c) ==
    /\ app.pc = "awaitRedis"
    /\ clients[c].awaiting
    /\ giveUp_event(c)
    /\ app' = [app EXCEPT !.pc = MainAfterInit("failed"), !.init = "failed"]

\* GET /health while the server listens.
health_request ==
    /\ Alive
    /\ app.pc = "serving"
    /\ \E healthy \in BOOLEAN :
          app' = [app EXCEPT !.resp = health(healthy, isRedisConnected)]
    /\ UNCHANGED <<cfgMax, lifeVars, cacheVars, probe, player>>

\* SIGINT or SIGTERM with Redis disabled or the handle null: closeStorage(),
\* closeRedis() has nothing to do, Deno.exit(0).
shutdown_direct ==
    /\ Alive
    /\ app.pc = "serving"
    /\ app.shut = "none"
    /\ ~app.enabled \/ redisClient = Null
    /\ app' = [app EXCEPT !.shut = "exited", !.storageOpen = FALSE]
    /\ UNCHANGED <<cfgMax, lifeVars, cacheVars, probe, player>>

\* SIGINT or SIGTERM with a client: closeStorage(), then closeRedis() up to
\* its await on quit().
shutdown_quit ==
    /\ Alive
    /\ app.pc = "serving"
    /\ app.shut = "none"
    /\ app.enabled
    /\ closeRedis_call
    /\ app' = [app EXCEPT !.shut = "awaitQuit", !.storageOpen = FALSE]

\* quit() resolves: closeRedis returns, Deno.exit(0).
shutdown_quitResolved ==
    /\ app.shut = "awaitQuit"
    /\ quit_resolved
    /\ app' = [app EXCEPT !.shut = "exited"]

\* quit() rejects: the error leaves closeRedis and the handler; Deno.exit(0)
\* is not reached.
shutdown_quitRejected ==
    /\ app.shut = "awaitQuit"
    /\ quit_rejected
    /\ app' = [app EXCEPT !.shut = "aborted"]

\* ------------------------------------------------------ audio error handler

\* src/lib/modules/audioErrorHandler.ts: the handler of the audio element's
\* error event.  The file holds an unresolved merge conflict (lines 8-29):
\* a build keeps one side.  The side of HEAD reads an identifier, store, that
\* the module neither imports nor declares, so the handler pauses the
\* element and throws a ReferenceError; the side of upstream/main reads
\* playerStore.proxy and goes on.
\*
\* A string is a sequence of pieces: an origin, "data:", path pieces, the
\* suffix "&fallback".
AppOrigin == "https://app"
CdnOrigin == "https://cdn"
ProxyOrigin == "https://proxy"
Origins == {AppOrigin, CdnOrigin, ProxyOrigin}

\* location.href of the page.
LocationHref == <<AppOrigin, "/">>

\* What audio.src reads as when the handler is first invoked or after the
\* player has loaded a stream: "" (no src), the page's URL (an empty src
\* attribute), a stream, a fallback stream, a stream on the proxy, a data:
\* URL, an attribute that is not a URL.
Sources ==
    {<<>>, LocationHref, <<CdnOrigin, "/v">>, <<CdnOrigin, "/v", "&fallback">>,
     <<ProxyOrigin, "/v">>, <<"data:", "x">>, <<"http://">>}

\* playerStore.proxy: none, an origin, an origin with a trailing slash, a
\* host without scheme, the origin of the stream itself.
Proxies ==
    {<<>>, <<ProxyOrigin>>, <<ProxyOrigin, "/">>, <<"proxy.host">>, <<CdnOrigin>>}

Prefetches == {"", "vid"}

\* new URL(s) does not throw.
Parses(s) == s # <<>> /\ Head(s) \in Origins \cup {"data:"}

\* new URL(s).origin; "null" for an opaque origin.
Origin(s) == IF Head(s) \in Origins THEN <<Head(s)>> ELSE <<"null">>

\* s.endsWith('&fallback')
EndsWithFallback(s) == s # <<>> /\ s[Len(s)] = "&fallback"

\* s.replace(o, p): the first occurrence of o, if any, becomes p.
Replace(s, o, p) ==
    LET at == {i \in 1..Len(s) : s[i] = o[1]} IN
    IF at = {} THEN s
    ELSE LET i == CHOOSE j \in at : \A k \in at : j <= k IN
         SubSeq(s, 1, i - 1) \o p \o SubSeq(s, i + 1, Len(s))

\* audio.src = s, read back: the element resolves a relative URL against the
\* page and returns an absolute URL or an unparsable attribute as it is.
Serialize(s) ==
    IF s = <<>> \/ Parses(s) \/ Head(s) = "http://" THEN s
    ELSE LocationHref \o s

\* The handler as it was without the retried mark: the origin decides alone.
IsAlreadyProxy_OriginOnly(origin, proxy, retried) == origin = proxy

\* url.origin === proxy || audio.dataset.retried === 'true'
IsAlreadyProxy(origin, proxy, retried) == origin = proxy \/ retried

\* A handler that notifies for a prefetch as well.
NotPrefetch_Ignored(prefetch) == TRUE

\* !prefetch
NotPrefetch(prefetch) == prefetch = ""

NoPlayer ==
    [side |-> "none", src |-> <<>>, retried |-> FALSE, paused |-> FALSE,
     proxy |-> <<>>, isWatching |-> FALSE, playbackState |-> "playing",
     status |-> "", snackbar |-> "", n |-> 0, prefetch |-> "",
     rewrites |-> 0, threw |-> FALSE]

\* The element and the stores before the first error.
PlayerStarts ==
    {[NoPlayer EXCEPT !.side = side, !.src = src, !.proxy = proxy,
                      !.isWatching = w] :
        side \in {"HEAD", "upstream/main"}, src \in Sources,
        proxy \in Proxies, w \in BOOLEAN}

\* The default export: the element and the stores after one invocation.
audioErrorHandler(p, prefetch) ==
    LET paused == [p EXCEPT !.paused = TRUE, !.threw = FALSE]
        failed == [paused EXCEPT !.playbackState = "none",
                                 !.status = "Streaming Failed"]
        origin == Origin(p.src)
        newSrc == Replace(p.src, origin, p.proxy)
    IN
    IF p.side = "HEAD" THEN [paused EXCEPT !.threw = TRUE]
    ELSE IF p.src = <<>> \/ p.src = LocationHref THEN paused
    ELSE IF ~Parses(p.src) THEN [paused EXCEPT !.threw = TRUE]
    ELSE IF EndsWithFallback(p.src)
    THEN IF ~p.isWatching /\ NotPrefetch(prefetch)
         THEN [paused EXCEPT
                 !.snackbar = "Error 403 : Unauthenticated Stream",
                 !.playbackState = "none"]
         ELSE paused
    ELSE IF p.proxy = <<>> \/ IsAlreadyProxy(origin, p.proxy, p.retried)
    THEN IF NotPrefetch(prefetch)
         THEN [failed EXCEPT !.snackbar = "Streaming Failed"]
         ELSE paused
    ELSE IF newSrc # p.src
    THEN [paused EXCEPT !.retried = TRUE, !.src = Serialize(newSrc),
                        !.rewrites = @ + 1]
    ELSE IF NotPrefetch(prefetch) THEN failed ELSE paused

backendVars == <<cfgMax, lifeVars, cacheVars, probe, app>>

\* The element fires an error event and the handler runs.
error_event(prefetch) ==
    /\ player.side # "none"
    /\ player.n < MaxErrors
    /\ player' = [audioErrorHandler(player, prefetch) EXCEPT
                     !.n = @ + 1, !.prefetch = prefetch]
    /\ UNCHANGED backendVars

\* The player gives the element another stream and plays it.
player_load(src) ==
    /\ player.side # "none"
    /\ player' = [player EXCEPT !.src = src, !.paused = FALSE,
                                !.playbackState = "playing", !.status = "",
                                !.snackbar = ""]
    /\ UNCHANGED backendVars

\* ----------------------------------------------------------- specifications

NoProbe == [m |-> NotConfigured, retries |-> 0, out |-> Delay(0),
            applied |-> FALSE]

InitBackend(cfgs, probes, apps, all) ==
    /\ cfgMax \in cfgs
    /\ redisClient = Null
    /\ isConnected = FALSE
    /\ clients = [c \in ClientIds |-> NoClient]
    /\ closePc = "idle"
    /\ closeH = Null
    /\ store = [k \in Keys |-> Absent]
    /\ calls = [i \in Slots |-> Idle]
    /\ hist = [set |-> [k \in Keys |-> HistNone],
               clean |-> [i \in Slots |-> FALSE],
               read |-> [k \in Keys |-> 0],
               ctr |-> [k \in Keys |-> 0],
               all |-> all]
    /\ probe \in probes
    /\ app \in apps

\* The backend alone: no audio element.
InitState(cfgs, probes, apps, all) ==
    InitBackend(cfgs, probes, apps, all) /\ player = NoPlayer

InitWith(cfgs, probes) == InitState(cfgs, probes, {NoApp}, FALSE)

CfgInputs == {Configured(n) : n \in 1..MaxCfgRetries}

\* The client's own life: creation and its events.
LifeCore(limit) ==
    \/ initRedis_start(limit)
    \/ \E c \in ClientIds : on_connect(c)
    \/ \E c \in ClientIds : on_ready(c)
    \/ \E c \in ClientIds : on_error_retry(c)
    \/ \E c \in ClientIds : on_error_giveUp(c)
    \/ \E c \in ClientIds : on_reconnecting(c)
    \/ \E c \in ClientIds : on_socketError(c)

LifeNext(limit) ==
    \/ LifeCore(limit)
    \/ initRedis_createFails
    \/ closeRedis_start
    \/ closeRedis_noop
    \/ closeRedis_resolve
    \/ closeRedis_reject

\* The steps of the operations with one command.
CacheNext(slots, ops, keys, pats, ttls) ==
    \/ \E i \in slots, op \in ops :
          \E a \in ArgsOf(op, keys, pats, ttls) : op_call(i, a)
    \/ \E i \in slots : server_exec(i)
    \/ \E i \in slots : server_lost(i)
    \/ \E i \in slots : cmd_reject(i)
    \/ \E i \in slots : op_return(i)

\* The connection lifecycle, with several clients.
Init == InitWith(CfgInputs, {NoProbe})
Next == LifeNext(MaxClients)
Spec == Init /\ [][Next]_vars

\* One caller of the data operations on two keys, one client.
DataOps == {"get", "set", "del", "exists"}
InitData == InitWith({Configured(1)}, {NoProbe})
NextData ==
    \/ LifeCore(1)
    \/ CacheNext({1}, DataOps, {K_a1, K_b1}, {}, TtlInputs)
    \/ Tick
SpecData == InitData /\ [][NextData]_vars

\* One caller of pattern deletion on three keys without expiry, one client.
PatternOps == {"get", "set", "del", "delPattern"}
InitPattern == InitWith({Configured(1)}, {NoProbe})
NextPattern ==
    \/ LifeNext(1)
    \/ CacheNext({1}, PatternOps, Keys, Patterns, {NoTtl})
    \/ op_continue(1)
SpecPattern == InitPattern /\ [][NextPattern]_vars

\* One caller of every operation on one key, one client.
InitOps == InitWith({Configured(1)}, {NoProbe})
NextOps ==
    \/ LifeNext(1)
    \/ CacheNext({1}, Ops, {K_a1}, {<<"a", ":", "*">>}, TtlInputs)
    \/ op_continue(1)
    \/ Tick
SpecOps == InitOps /\ [][NextOps]_vars

\* reconnectStrategy applied to every configuration and attempt number.
ProbeInputs == {NotConfigured} \cup {Configured(n) : n \in 0..MaxProbe}
InitStrategy ==
    InitWith({NotConfigured},
             {[m |-> m, retries |-> r, out |-> Delay(0), applied |-> FALSE] :
                 m \in ProbeInputs, r \in 0..MaxProbe})
strategy_apply ==
    /\ ~probe.applied
    /\ probe' = [probe EXCEPT !.out = reconnectStrategy(probe.m, probe.retries),
                              !.applied = TRUE]
    /\ UNCHANGED <<cfgMax, lifeVars, cacheVars, app, player>>
NextStrategy == strategy_apply
SpecStrategy == InitStrategy /\ [][NextStrategy]_vars

\* Closing and initialising again: several clients whose attempts succeed
\* and whose sockets may break, late events of closed clients, one caller of
\* get and set on one key.
NextClose ==
    \/ initRedis_start(MaxClients)
    \/ \E c \in ClientIds : on_connect(c)
    \/ \E c \in ClientIds : on_ready(c)
    \/ \E c \in ClientIds : on_socketError(c)
    \/ closeRedis_start
    \/ closeRedis_noop
    \/ closeRedis_resolve
    \/ \E c \in ClientIds : on_lateEvent(c)
    \/ CacheNext({1}, {"get", "set"}, {K_a1}, {}, {NoTtl})
SpecClose == InitOps /\ [][NextClose]_vars

\* The audio element: error events for the playing stream and for
\* prefetches, and new streams loaded in between.
InitPlayer ==
    /\ InitBackend({NotConfigured}, {NoProbe}, {NoApp}, FALSE)
    /\ player \in PlayerStarts
NextPlayer ==
    \/ \E prefetch \in Prefetches : error_event(prefetch)
    \/ \E src \in Sources : player_load(src)
SpecPlayer == InitPlayer /\ [][NextPlayer]_vars

\* The client's events and the requests while the process runs.
app_on_connect(c) == Alive /\ on_connect(c)
app_on_ready(c) == Alive /\ ~clients[c].awaiting /\ on_ready(c)
app_on_error_retry(c) == Alive /\ on_error_retry(c)
app_on_error_giveUp(c) == Alive /\ ~clients[c].awaiting /\ on_error_giveUp(c)
app_on_reconnecting(c) == Alive /\ on_reconnecting(c)
app_on_socketError(c) == Alive /\ on_socketError(c)
request_call(i, a) == Alive /\ app.pc = "serving" /\ op_call(i, a)
request_exec(i) == Alive /\ server_exec(i)
request_lost(i) == Alive /\ server_lost(i)
request_reject(i) == Alive /\ cmd_reject(i)
request_return(i) == Alive /\ op_return(i)

\* Two concurrent callers of get, set, del and incr on one key, one client;
\* set writes a text or the number -1.
ConcValues == {"x", "-1"}
ConcArgs ==
    {[op |-> "set", key |-> K_a1, val |-> v, ttl |-> NoTtl] : v \in ConcValues}
    \cup {[op |-> op, key |-> K_a1, val |-> "", ttl |-> NoTtl] :
             op \in {"get", "del", "incr"}}
InitConc == InitState({Configured(1)}, {NoProbe}, {NoApp}, TRUE)
NextConc ==
    \/ LifeCore(1)
    \/ \E i \in {1, 2}, a \in ConcArgs : op_call(i, a)
    \/ \E i \in {1, 2} : server_exec(i)
    \/ \E i \in {1, 2} : server_lost(i)
    \/ \E i \in {1, 2} : cmd_reject(i)
    \/ \E i \in {1, 2} : op_return(i)
SpecConc == InitConc /\ [][NextConc]_vars

\* The application: main, the client's events, requests for get and set on
\* one key, /health, one signal.
AppOps == {"get", "set"}
InitApp ==
    InitState({Configured(1)}, {NoProbe},
              {AppStart(enabled, valid) : enabled \in BOOLEAN, valid \in BOOLEAN},
              FALSE)
NextApp ==
    \/ main_validate
    \/ main_initStorage
    \/ main_initRedis
    \/ main_initRedis_createFails
    \/ main_skipRedis
    \/ main_ready(1)
    \/ main_giveUp(1)
    \/ app_on_connect(1)
    \/ app_on_ready(1)
    \/ app_on_error_retry(1)
    \/ app_on_error_giveUp(1)
    \/ app_on_reconnecting(1)
    \/ app_on_socketError(1)
    \/ health_request
    \/ \E op \in AppOps :
          \E a \in ArgsOf(op, {K_a1}, {}, {NoTtl}) : request_call(1, a)
    \/ request_exec(1)
    \/ request_lost(1)
    \/ request_reject(1)
    \/ request_return(1)
    \/ shutdown_direct
    \/ shutdown_quit
    \/ shutdown_quitResolved
    \/ shutdown_quitRejected
SpecApp == InitApp /\ [][NextApp]_vars

\* The same with the scheduling of the event loop: an event of the client
\* that can happen does happen, a continuation that can run does run, and a
\* QUIT queued on a client is sent whenever the client is ready.
AppFairness ==
    /\ WF_vars(main_ready(1))
    /\ WF_vars(main_giveUp(1))
    /\ WF_vars(app_on_connect(1))
    /\ WF_vars(app_on_ready(1))
    /\ WF_vars(app_on_error_retry(1))
    /\ WF_vars(app_on_error_giveUp(1))
    /\ WF_vars(app_on_reconnecting(1))
    /\ SF_vars(shutdown_quitResolved)
    /\ WF_vars(shutdown_quitRejected)
SpecAppFair == InitApp /\ [][NextApp]_vars /\ AppFairness


\* ------------------------------------------------------------------ claims

\* A call in slot i completes in this step.
Completes(i) == calls[i].pc # "done" /\ calls'[i].pc = "done"

\* C1: a cache operation never completes by throwing; whenever it completes
\* without a reply (the guard found the backend down, or a command failed)
\* it returns its sentinel: get null, set false, del false, delPattern 0,
\* exists false, ttl -2, incr 0; getStats returns a status record.
C1_NonThrowing ==
    \A i \in Slots :
        LET c == calls[i] IN
        c.pc = "done" =>
            /\ c.res.kind # "throw"
            /\ c.how \in {"guard", "catch"} =>
                  CASE c.op = "get" -> c.res = [kind |-> "null", s |-> "", n |-> 0]
                    [] c.op \in {"set", "del", "exists"} ->
                          c.res.kind = "bool" /\ c.res.s = "false"
                    [] c.op \in {"delPattern", "incr"} ->
                          c.res.kind = "num" /\ c.res.n = 0
                    [] c.op = "ttl" -> c.res.kind = "num" /\ c.res.n = 0 - 2
                    [] OTHER -> c.res.kind = "stats"
                                  /\ c.res.s \in {"disconnected", "error"}

\* C1 witness: an incr whose command failed has returned 0.
C1_Witness ==
    \E i \in Slots :
        /\ calls[i].pc = "done"
        /\ calls[i].op = "incr"
        /\ calls[i].how = "catch"
        /\ calls[i].res.kind = "num"
        /\ calls[i].res.n = 0

\* C2: after set(k, v, t) with t > 0 has returned true, a get(k) that is
\* answered before the lifetime has run out, with no other write of k in
\* between, returns v.
C2_RoundTrip ==
    [][\A i \in Slots :
          LET k == calls'[i].key IN
          (/\ Completes(i)
           /\ calls'[i].op = "get"
           /\ calls'[i].how = "reply"
           /\ hist.set[k].t > 0
           /\ hist.set[k].left > 0)
          => (calls'[i].res.kind = "str" /\ calls'[i].res.s = hist.set[k].v)]_vars

\* C2 witness: a get answered right after such a set holds the value set.
C2_Witness ==
    \E i \in Slots :
        /\ calls[i].pc = "done"
        /\ calls[i].op = "get"
        /\ calls[i].how = "reply"
        /\ hist.set[calls[i].key].t > 0
        /\ hist.set[calls[i].key].left = hist.set[calls[i].key].t
        /\ calls[i].res.kind = "str"
        /\ calls[i].res.s = hist.set[calls[i].key].v

\* C3: once the configured number of reconnect attempts has been made the
\* backend gives up: no attempt beyond the maximum is in progress, and while
\* the handle is the client that gave up isRedisConnected() is false.
C3_ReconnectBound ==
    \A c \in ClientIds :
        /\ clients[c].phase \in {"connecting", "handshake", "backoff"} =>
              clients[c].retries <= cfgMax.v
        /\ (clients[c].phase = "gaveUp" /\ redisClient = c) =>
              ~isRedisConnected

\* C4: a delPattern that is answered, with nothing else touching the store
\* since its enumeration, removes exactly the stored keys that match the
\* pattern, returns how many there were, and leaves every other key as it was.
C4_PatternDelete ==
    [][\A i \in Slots :
          LET c == calls[i] IN
          (/\ Completes(i)
           /\ c.op = "delPattern"
           /\ calls'[i].how = "reply"
           /\ hist.clean[i])
          => /\ \A k \in Keys :
                   store'[k] = IF Match(c.key, k) THEN Absent ELSE store[k]
             /\ calls'[i].res.kind = "num"
             /\ calls'[i].res.n =
                   Cardinality({k \in Keys : Present(store, k) /\ Match(c.key, k)})]_vars

\* C4 witness: delPattern("a:*") has returned 2, the two keys under a: are
\* gone and the key under b: is still stored.
C4_Witness ==
    \E i \in Slots :
        /\ calls[i].pc = "done"
        /\ calls[i].op = "delPattern"
        /\ calls[i].key = <<"a", ":", "*">>
        /\ calls[i].how = "reply"
        /\ calls[i].res.n = 2
        /\ ~Present(store, K_a1)
        /\ ~Present(store, K_a2)
        /\ Present(store, K_b1)

\* C5: a delPattern never returns a positive count unless the keys it
\* enumerated have all been deleted.
C5_PatternAtomic ==
    [][\A i \in Slots :
          (/\ Completes(i)
           /\ calls[i].op = "delPattern"
           /\ calls'[i].res.n > 0)
          => \A k \in calls[i].keys : ~Present(store', k)]_vars

\* C5 witness: the bulk delete of an enumerated, still stored key failed
\* and delPattern has returned 0.
C5_Witness ==
    \E i \in Slots :
        /\ calls[i].pc = "done"
        /\ calls[i].op = "delPattern"
        /\ calls[i].how = "catch"
        /\ calls[i].res.n = 0
        /\ hist.clean[i]
        /\ \E k \in Keys : Present(store, k) /\ Match(calls[i].key, k)

\* C6: when the t seconds of a set(k, v, t) with t > 0 that returned true
\* have elapsed and k has not been written again, get(k) returns null and
\* exists(k) returns false.
C6_Expiry ==
    [][\A i \in Slots :
          LET k == calls'[i].key IN
          (/\ Completes(i)
           /\ calls'[i].op \in {"get", "exists"}
           /\ hist.set[k].t > 0
           /\ hist.set[k].left = 0)
          => /\ calls'[i].op = "get" => calls'[i].res.kind = "null"
             /\ calls'[i].op = "exists" =>
                   (calls'[i].res.kind = "bool" /\ calls'[i].res.s = "false")]_vars

\* C6 witness: an exists on a key whose lifetime has run out was answered
\* by the server with false.
C6_Witness ==
    \E i \in Slots :
        /\ calls[i].pc = "done"
        /\ calls[i].op = "exists"
        /\ calls[i].how = "reply"
        /\ hist.set[calls[i].key].t > 0
        /\ hist.set[calls[i].key].left = 0
        /\ calls[i].res.s = "false"

\* C7: for every attempt number n up to the maximum the delay is
\* min(n * 100, 3000) ms, and for every n above it reconnection is abandoned;
\* the maximum is the configured one, 10 when none is configured.
C7_Backoff ==
    probe.applied =>
        LET max == IF probe.m.has THEN probe.m.v ELSE 10
            n == probe.retries
        IN  IF n <= max
            THEN /\ probe.out.kind = "delay"
                 /\ probe.out.ms = (IF n * 100 < 3000 THEN n * 100 ELSE 3000)
            ELSE probe.out.kind = "error"

\* C8: isRedisConnected() is true only once the handshake has succeeded: it
\* is false while the current client is between attempts, connecting, or
\* between 'connect' and 'ready'.
C8_ConnectedOnlyAfterReady ==
    \A c \in ClientIds :
        (redisClient = c /\ clients[c].phase \in {"connecting", "handshake", "backoff"})
        => ~isRedisConnected

\* The lifecycle events of client c, read off its phases.
ConnectEvent(c) ==
    clients[c].phase = "connecting" /\ clients'[c].phase = "handshake"
ReadyEvent(c) ==
    clients[c].phase = "handshake" /\ clients'[c].phase = "ready"
ErrorEvent(c) ==
    \/ clients[c].phase \in {"connecting", "handshake"}
          /\ clients'[c].phase \in {"backoff", "gaveUp"}
    \/ clients[c].phase = "ready" /\ clients'[c].phase = "connecting"
ReconnectingEvent(c) ==
    clients[c].phase \in {"backoff", "ready"} /\ clients'[c].phase = "connecting"

\* C9: the flag follows every lifecycle event: after an 'error' or a
\* 'reconnecting' event isRedisConnected() is false, and after a 'connect'
\* or a 'ready' event of the current client it is true.
C9_FlagFollowsEvents ==
    [][\A c \in ClientIds :
          /\ (ErrorEvent(c) \/ ReconnectingEvent(c)) => ~isRedisConnected'
          /\ ((ConnectEvent(c) \/ ReadyEvent(c)) /\ redisClient = c) =>
                isRedisConnected']_vars

\* C9 witness: the current client failed, retried, and its socket is open
\* again: the flag, false after the failure, is true.
C9_Witness ==
    \E c \in ClientIds :
        /\ redisClient = c
        /\ clients[c].phase = "handshake"
        /\ clients[c].retries > 0
        /\ isRedisConnected

\* C10: no step of a cache operation changes the connection flag or the
\* client handle, whatever its outcome.
C10_OpsPreserveConnection ==
    [][calls' # calls =>
          (isConnected' = isConnected /\ redisClient' = redisClient)]_vars

\* C10 witness: a command has failed, its operation has returned through
\* the catch block, and the backend still reports connected.
C10_Witness ==
    \E i \in Slots :
        /\ calls[i].pc = "done"
        /\ calls[i].how = "catch"
        /\ isConnected
        /\ redisClient # Null
\* C11: GET /health answers 200 exactly when storage is healthy and 503
\* otherwise, whatever the state of Redis; the body has status "ok" exactly
\* when storage is healthy and Redis is connected and "degraded" otherwise,
\* redis "connected" exactly when isRedisConnected() is true, and storage
\* "ok" exactly when storage is healthy.
C11_Health ==
    [][app'.resp # app.resp =>
          LET r == app'.resp IN
          /\ r.code = (IF r.healthy THEN 200 ELSE 503)
          /\ r.status = (IF r.healthy /\ r.redis = "connected"
                         THEN "ok" ELSE "degraded")
          /\ r.redis = (IF isConnected /\ redisClient # Null
                        THEN "connected" ELSE "disconnected")
          /\ r.storage = (IF r.healthy THEN "ok" ELSE "unhealthy")]_vars

\* C11 witness: with healthy storage and Redis disconnected the answer was
\* 200 with status "degraded".
C11_Witness ==
    /\ app.resp.made
    /\ app.resp.healthy
    /\ app.resp.redis = "disconnected"
    /\ app.resp.code = 200
    /\ app.resp.status = "degraded"

\* C12: when client creation or connect() has failed, initRedis has returned
\* without throwing: the handle is null, the flag is false, main has gone on
\* to serve, and /health reports redis "disconnected".
C12_InitFailureIsNotFatal ==
    app.init = "failed" =>
        /\ redisClient = Null
        /\ ~isConnected
        /\ app.pc = "serving"
        /\ app.resp.made => app.resp.redis = "disconnected"

\* C12 witness: the retry budget ran out during initRedis, the server was
\* started and has answered a health request.
C12_Witness ==
    /\ app.init = "failed"
    /\ clients[1].phase = "gaveUp"
    /\ app.pc = "serving"
    /\ app.resp.made
    /\ app.resp.redis = "disconnected"

\* C13: with config.redisEnabled false no client is ever created, the handle
\* stays null, isRedisConnected() is false, and every operation returns its
\* sentinel from the guard.
C13_DisabledNeverConnects ==
    ~app.enabled =>
        /\ \A c \in ClientIds : clients[c].phase = "none"
        /\ redisClient = Null
        /\ ~(isConnected /\ redisClient # Null)
        /\ \A i \in Slots :
              /\ calls[i].pc \in {"idle", "done"}
              /\ calls[i].pc = "done" =>
                    /\ calls[i].how = "guard"
                    /\ calls[i].op = "get" => calls[i].res.kind = "null"
                    /\ calls[i].op = "set" =>
                          (calls[i].res.kind = "bool" /\ calls[i].res.s = "false")

\* C13 witness: Redis is disabled, the server runs and a set has returned
\* false.
C13_Witness ==
    /\ ~app.enabled
    /\ app.pc = "serving"
    /\ \E i \in Slots :
          calls[i].pc = "done" /\ calls[i].op = "set" /\ calls[i].res.s = "false"

\* C14: validation comes first: storage is initialised, Redis is initialised
\* and requests are served only with a valid configuration; with an invalid
\* one the process stops before any of them and no client is created.
C14_ValidationFirst ==
    /\ (\/ app.storageOpen
        \/ app.init # "none"
        \/ app.pc \in {"validated", "storage", "awaitRedis", "serving"}
        \/ app.shut # "none"
        \/ \E c \in ClientIds : clients[c].phase # "none") => app.valid
    /\ ~app.valid =>
          /\ app.pc \in {"start", "crashed"}
          /\ redisClient = Null
          /\ ~app.resp.made
          /\ \A i \in Slots : calls[i].pc = "idle"

\* C14 witness: validation has failed and the process has stopped.
C14_Witness ==
    /\ ~app.valid
    /\ app.pc = "crashed"
    /\ ~app.storageOpen
    /\ clients[1].phase = "none"

\* C18: no get or set waits on the reconnection loop: a call that passes the
\* guard is issued to a client that is ready, so that it completes on the
\* server's reply or on the failure of the socket.  (A command issued to a
\* client that is not ready is held by the client until an attempt to
\* connect succeeds or the client is closed.)
C18_NoWaitOnReconnect ==
    [][\A i \in Slots :
          (calls[i].pc = "idle" /\ calls'[i].pc = "sent")
          => clients[calls'[i].h].phase = "ready"]_vars

\* C19: once a signal has started the shutdown handler, the handler reaches
\* Deno.exit, in every state of the connection and for every outcome of
\* quit().
C19_ShutdownTerminates == (app.shut # "none") ~> (app.shut = "exited")

\* C16: a ttl(k) answered by the server returns the remaining seconds of a
\* key set with a ttlSeconds and still alive, -1 for a key stored without
\* expiry and -2 for an absent key; it returns -2 for a stored key only from
\* the guard or the catch block.
C16_TtlThreeWay ==
    [][\A i \in Slots :
          LET k == calls'[i].key
              n == calls'[i].res.n
          IN
          (Completes(i) /\ calls'[i].op = "ttl")
          => /\ calls'[i].res.kind = "num"
             /\ calls'[i].how = "reply" =>
                   /\ ~Present(store, k) => n = 0 - 2
                   /\ (Present(store, k) /\ store[k].ttl = 0) => n = 0 - 1
                   /\ (Present(store, k) /\ store[k].ttl > 0) =>
                         (n >= 0 /\ n = store[k].ttl)
                   /\ (hist.set[k].t > 0 /\ hist.set[k].left > 0) =>
                         n = hist.set[k].left
             /\ (n = 0 - 2 /\ Present(store, k)) =>
                   calls'[i].how \in {"guard", "catch"}]_vars

\* C16 witness: the server answered -1 for a key stored without expiry.
C16_Witness ==
    \E i \in Slots :
        /\ calls[i].pc = "done"
        /\ calls[i].op = "ttl"
        /\ calls[i].how = "reply"
        /\ calls[i].res.n = 0 - 1
        /\ Present(store, calls[i].key)
        /\ store[calls[i].key].ttl = 0

\* C17: with no write of the key in between, a ttl reading of a key stored
\* with expiry is never larger than the reading before it, and never larger
\* than the ttlSeconds of the last set.
C17_TtlNeverGrows ==
    [][\A i \in Slots :
          LET k == calls'[i].key
              n == calls'[i].res.n
          IN
          (/\ Completes(i)
           /\ calls'[i].op = "ttl"
           /\ calls'[i].how = "reply"
           /\ n > 0)
          => /\ hist.read[k] > 0 => n <= hist.read[k]
             /\ hist.set[k].t > 0 => n <= hist.set[k].t]_vars

\* C17 witness: after a second has passed the reading, kept as the latest
\* one, is below the ttlSeconds of the set.
C17_Witness ==
    \E i \in Slots :
        /\ calls[i].pc = "done"
        /\ calls[i].op = "ttl"
        /\ calls[i].how = "reply"
        /\ calls[i].res.n > 0
        /\ calls[i].res.n < hist.set[calls[i].key].t
        /\ hist.read[calls[i].key] = calls[i].res.n

\* C15: the last set to complete wins: when sets of a key have returned true
\* and no other write or expiry has touched the key since the last of them,
\* a get answered by the server returns the value of that last set.
C15_LastWriteWins ==
    [][\A i \in Slots :
          LET k == calls'[i].key IN
          (/\ Completes(i)
           /\ calls'[i].op = "get"
           /\ calls'[i].how = "reply"
           /\ hist.set[k].v # ""
           /\ hist.set[k].t = 0)
          => (calls'[i].res.kind = "str" /\ calls'[i].res.s = hist.set[k].v)]_vars

\* C15 witness: a get of one caller holds the value that the set of the
\* other caller, the last to return true, wrote.
C15_Witness ==
    \E i, j \in Slots :
        /\ i # j
        /\ calls[i].pc = "done" /\ calls[i].op = "get" /\ calls[i].how = "reply"
        /\ calls[j].pc = "done" /\ calls[j].op = "set" /\ calls[j].how = "reply"
        /\ calls[i].res.kind = "str"
        /\ calls[i].res.s = calls[j].val
        /\ hist.set[calls[i].key].v = calls[j].val

\* C20: an incr answered by the server returns one more than the
\* count before it (1 for an absent key), and one more than the incr before
\* it when no set, del or expiry came between; incr returns 0 only from the
\* guard or the catch block.
C20_IncrReturnsNew ==
    [][\A i \in Slots :
          LET k == calls'[i].key
              n == calls'[i].res.n
          IN
          (Completes(i) /\ calls'[i].op = "incr")
          => /\ calls'[i].how = "reply" =>
                   /\ n = (IF Present(store, k) THEN ToInt(store[k].val) ELSE 0) + 1
                   /\ hist.ctr[k] > 0 => n = hist.ctr[k] + 1
             /\ n = 0 => calls'[i].how \in {"guard", "catch"}]_vars

\* C21: the count a delPattern returns after its bulk delete was answered is
\* the number of entries that delete removed from the store, whatever
\* happened to the enumerated keys between the enumeration and the delete.
C21_CountIsRemoved ==
    [][\A i \in Slots :
          (/\ Completes(i)
           /\ calls[i].op = "delPattern"
           /\ calls'[i].how = "reply")
          => /\ calls'[i].res.kind = "num"
             /\ calls'[i].res.n =
                   Cardinality({k \in Keys :
                                  Present(store, k) /\ ~Present(store', k)})]_vars

\* C22: getStats never throws and returns a status record: "disconnected"
\* exactly when isRedisConnected() is false at the call; "connected" only on
\* the answer to DBSIZE, after INFO was answered, and then with the number
\* of stored keys as its size; "error" exactly when its catch block ran,
\* which is what happens when the handle is null after INFO was answered.
C22_Stats ==
    [][\A i \in Slots :
          LET r == calls'[i].res IN
          (Completes(i) /\ calls'[i].op = "getStats")
          => /\ r.kind = "stats"
             /\ r.s \in {"connected", "disconnected", "error"}
             /\ r.s = "disconnected" <=>
                   (calls[i].pc = "idle" /\ ~(isConnected /\ redisClient # Null))
             /\ r.s = "connected" =>
                   /\ calls[i].pc = "sent"
                   /\ calls[i].cmd = "DBSIZE"
                   /\ r.n = Cardinality({k \in Keys : Present(store, k)})
             /\ r.s = "error" <=> calls'[i].how = "catch"
             /\ (calls[i].pc = "replied" /\ redisClient = Null) =>
                   r.s = "error"]_vars

\* C22 witness: getStats has reported "connected" with size 1 while one key
\* is stored.
C22_Witness ==
    \E i \in Slots :
        /\ calls[i].pc = "done"
        /\ calls[i].op = "getStats"
        /\ calls[i].how = "reply"
        /\ calls[i].res.s = "connected"
        /\ calls[i].res.n = 1
        /\ Present(store, K_a1)

\* C23: an operation called while isRedisConnected() is false completes in
\* the call itself with its sentinel, issues no command and leaves the store
\* alone; so a get returns null for a miss, from the guard and from the
\* catch block alike, and a ttl returns -2 for an absent key, from the guard
\* and from the catch block alike.
C23_GuardShortCircuits ==
    [][\A i \in Slots :
          LET c == calls'[i] IN
          /\ (calls[i].pc = "idle" /\ c.pc # "idle"
                 /\ ~(isConnected /\ redisClient # Null))
             => /\ c.pc = "done"
                /\ c.how = "guard"
                /\ c.cmd = "none"
                /\ store' = store
                /\ CASE c.op = "get" -> c.res.kind = "null"
                     [] c.op \in {"set", "del", "exists"} ->
                           c.res.kind = "bool" /\ c.res.s = "false"
                     [] c.op \in {"delPattern", "incr"} ->
                           c.res.kind = "num" /\ c.res.n = 0
                     [] c.op = "ttl" -> c.res.kind = "num" /\ c.res.n = 0 - 2
                     [] OTHER -> c.res.kind = "stats" /\ c.res.s = "disconnected"
          /\ (Completes(i) /\ c.op = "get"
                 /\ (c.how \in {"guard", "catch"} \/ ~Present(store, c.key)))
             => c.res = [kind |-> "null", s |-> "", n |-> 0]
          /\ (Completes(i) /\ c.op = "ttl"
                 /\ (c.how \in {"guard", "catch"} \/ ~Present(store, c.key)))
             => c.res = [kind |-> "num", s |-> "", n |-> 0 - 2]]_vars

\* C23 witness: the key is stored, the backend is disconnected, and a get
\* has returned null from the guard.
C23_Witness ==
    \E i \in Slots :
        /\ calls[i].pc = "done"
        /\ calls[i].op = "get"
        /\ calls[i].how = "guard"
        /\ calls[i].res.kind = "null"
        /\ Present(store, calls[i].key)
        /\ ~(isConnected /\ redisClient # Null)

\* C24: once initRedis has created a newer client, an event of an earlier
\* client ('connect', 'ready', 'error', 'reconnecting') does not change what
\* isRedisConnected() reports.
C24_OnlyCurrentClient ==
    [][\A c \in ClientIds :
          (/\ ConnectEvent(c) \/ ReadyEvent(c) \/ ErrorEvent(c)
                 \/ ReconnectingEvent(c)
           /\ redisClient # Null
           /\ redisClient # c)
          => (isConnected' /\ redisClient' # Null)
                = (isConnected /\ redisClient # Null)]_vars

\* A call of initRedis creates a client in this step.
InitCalled == \E c \in ClientIds : clients[c].phase = "none" /\ clients'[c].phase # "none"

\* C25: when closeRedis completes the handle is null and isRedisConnected()
\* is false; from then on, until initRedis is called again, it stays false
\* whatever the closed client emits, every operation called returns its
\* sentinel from the guard, and a further closeRedis issues no quit.
C25_CloseIsFinal ==
    [][/\ (closePc = "quitting" /\ clients[closeH].phase = "ready"
             /\ clients'[closeH].phase = "closed")
          => (redisClient' = Null /\ ~isConnected')
       /\ (redisClient = Null /\ ~InitCalled)
          => /\ ~(isConnected' /\ redisClient' # Null)
             /\ closePc = "idle" => closePc' = "idle"
             /\ \A i \in Slots :
                   (calls[i].pc = "idle" /\ calls'[i].pc # "idle")
                   => /\ calls'[i].pc = "done"
                      /\ calls'[i].how = "guard"
                      /\ calls'[i].cmd = "none"
                      /\ IF calls'[i].op = "get"
                         THEN calls'[i].res.kind = "null"
                         ELSE /\ calls'[i].res.kind = "bool"
                              /\ calls'[i].res.s = "false"]_vars

\* C25 witness: the client was closed by closeRedis, it has emitted a late
\* event that set the flag, the handle is null, and a set called after that
\* has returned false from the guard.
C25_Witness ==
    /\ clients[1].phase = "closed"
    /\ redisClient = Null
    /\ isConnected
    /\ calls[1].pc = "done"
    /\ calls[1].op = "set"
    /\ calls[1].how = "guard"
    /\ calls[1].res.s = "false"

\* C26: a set called with a ttlSeconds argument that returns true has stored
\* its key with an expiry; only a set without the argument stores a key
\* that does not expire.
C26_TtlGivenMeansExpiry ==
    [][\A i \in Slots :
          LET c == calls'[i] IN
          (/\ Completes(i)
           /\ c.op = "set"
           /\ c.how = "reply"
           /\ c.res.s = "true")
          => /\ c.ttl.has => store'[c.key].ttl > 0
             /\ store'[c.key].ttl = 0 => ~c.ttl.has]_vars

\* C27: an initRedis that main awaits returns: while main waits the client
\* has failed at most maxRetries + 1 times, and main goes on to start
\* the HTTP server, whether the connection is made or fails every time.
C27_InitTerminates ==
    /\ [](app.pc = "awaitRedis" =>
            \A c \in ClientIds :
                clients[c].retries <= EffectiveMaxRetries(cfgMax) + 1)
    /\ (app.pc = "awaitRedis") ~> (app.pc = "serving")

\* C27 witness: every attempt failed, initRedis has returned and the server
\* has been started; nothing else has happened yet.
C27_Witness ==
    /\ app.pc = "serving"
    /\ app.init = "failed"
    /\ app.shut = "none"
    /\ ~app.resp.made
    /\ clients[1].phase = "gaveUp"
    /\ \A i \in Slots : calls[i].pc = "idle"

\* C28: a health request answered while storage is healthy and
\* isRedisConnected() is true reports status "ok", and no request reports
\* "ok" unless isRedisConnected() is true when it is answered; with Redis
\* disabled every answer has status "degraded" and redis "disconnected".
C28_HealthFollowsRedis ==
    /\ [][app'.resp # app.resp =>
             LET r == app'.resp
                 connected == isConnected /\ redisClient # Null
             IN  /\ r.status = "ok" => connected
                 /\ (r.healthy /\ connected) => r.status = "ok"]_vars
    /\ []((~app.enabled /\ app.resp.made) =>
             (app.resp.status = "degraded" /\ app.resp.redis = "disconnected"))

\* C28 witness: Redis is enabled, the client is ready, and a health request
\* has been answered "ok".
C28_Witness ==
    /\ app.enabled
    /\ app.init = "ok"
    /\ clients[1].phase = "ready"
    /\ app.resp.made
    /\ app.resp.status = "ok"
    /\ app.resp.redis = "connected"

\* The handler runs in this step.
Invoked == player'.n = player.n + 1

C30_PrefetchFrame ==
    [][(Invoked /\ player'.prefetch # "")
       => /\ player'.playbackState = player.playbackState
          /\ player'.status = player.status
          /\ player'.snackbar = player.snackbar
          /\ player'.proxy = player.proxy
          /\ player'.isWatching = player.isWatching
          /\ player'.paused
          /\ player'.retried # player.retried => player'.src # player.src
          /\ player'.src # player.src =>
                /\ player.proxy # <<>>
                /\ \E i \in 1..Len(player'.src) :
                      SubSeq(player'.src, i, i + Len(player.proxy) - 1)
                         = player.proxy]_vars

\* C30 witness: the handler was invoked for a prefetch on a fallback source
\* while nothing is being watched, and playback goes on without a message.
C30_Witness ==
    /\ player.n > 0
    /\ player.prefetch # ""
    /\ ~player.threw
    /\ EndsWithFallback(player.src)
    /\ ~player.isWatching
    /\ player.paused
    /\ player.playbackState = "playing"
    /\ player.snackbar = ""

=============================================================================
